---------------------------- MODULE Spec2Model ----------------------------
(***************************************************************************)
(* State store of the calorie tracker: AppProvider (AppContext.jsx) on top *)
(* of two useLocalStorage cells (useLocalStorage.js), with the components  *)
(* that use it: GoalSetter, CalorieInput, ProgressDisplay and LogList.     *)
(*                                                                         *)
(* JavaScript values are records with a type tag.  A finite number is      *)
(* n + 1/2 when `half` holds and n otherwise, so that whole and fractional *)
(* numbers are distinguished.  A string is a sequence of one-character     *)
(* strings, so that trim() and Number() are computed on its characters.    *)
(* A storage slot holds JSON text, modelled by the document it denotes, or *)
(* text that is no JSON, or nothing.                                       *)
(***************************************************************************)
EXTENDS Integers, Sequences, FiniteSets

VARIABLES
    goal,       \* storedValue of the 'fitnessAppGoal' cell, as last rendered
    log,        \* storedValue of the 'fitnessAppLog' cell, as last rendered
    goalQueue,  \* state updates of the goal cell not rendered yet
    logQueue,   \* state updates of the log cell not rendered yet
    goalSlot,   \* localStorage['fitnessAppGoal']
    logSlot,    \* localStorage['fitnessAppLog']
    phase,      \* "unmounted", "idle", "effects" (rendered, effects due), "crashed"
    dirty,      \* the cells whose storedValue changed in the last render
    idCount,    \* number of ids nanoid() has produced
    last,       \* record of the latest call of a store operation
    prev,       \* record of the call before it
    env,        \* the execution context: what window.localStorage does in it
    boot,       \* record of the latest initialization, until the next call
    eff,        \* record of the latest render and its effects, until the next call
    snap,       \* what the store held when the page was last closed
    calorieInput,  \* state of the CalorieInput form
    goalSetter,    \* state of the GoalSetter form
    ui             \* record of the latest submit of a form, until the next event

vars == <<goal, log, goalQueue, logQueue, goalSlot, logSlot, phase, dirty,
          idCount, last, prev, env, boot, eff, snap, calorieInput, goalSetter,
          ui>>

\* the state of the components
uiVars == <<calorieInput, goalSetter, ui>>

-----------------------------------------------------------------------------
(* Bounds *)

\* ids nanoid() may produce in one run
MaxIds == 2
\* store operations called within one event, before React renders
MaxBatch == 2
\* times the page is closed and opened again
MaxReloads == 1

-----------------------------------------------------------------------------
(* JavaScript primitives *)

Prim(t, n, half, s) == [t |-> t, n |-> n, half |-> half, s |-> s]

Undef == Prim("undefined", 0, FALSE, <<>>)
Null == Prim("null", 0, FALSE, <<>>)
NaN == Prim("nan", 0, FALSE, <<>>)
PosInf == Prim("inf", 0, FALSE, <<>>)
NegInf == Prim("ninf", 0, FALSE, <<>>)
Obj == Prim("object", 0, FALSE, <<>>)
Bool(b) == Prim("boolean", IF b THEN 1 ELSE 0, FALSE, <<>>)
Num(n) == Prim("number", n, FALSE, <<>>)
NumHalf(n) == Prim("number", n, TRUE, <<>>)
Str(s) == Prim("string", 0, FALSE, s)

\* typeof v === 'number'
IsNumberType(v) == v.t \in {"number", "nan", "inf", "ninf"}

\* the global isNaN, on a number
IsNaN(x) == x.t = "nan"

\* isFinite, on a number
IsFinite(x) == x.t = "number"

\* x > 0, x <= 0, x < 0 on numbers; every comparison with NaN is false
GtZero(x) == x.t = "inf" \/ (x.t = "number" /\ (x.n > 0 \/ (x.n = 0 /\ x.half)))
LeqZero(x) == x.t = "ninf" \/ (x.t = "number" /\ (x.n < 0 \/ (x.n = 0 /\ ~x.half)))
LtZero(x) == x.t = "ninf" \/ (x.t = "number" /\ x.n < 0)

\* Number.isInteger
IsInteger(x) == x.t = "number" /\ ~x.half

\* !v is false
Truthy(v) ==
    CASE v.t \in {"undefined", "null", "nan"} -> FALSE
      [] v.t = "boolean" -> v.n = 1
      [] v.t = "number" -> ~(v.n = 0 /\ ~v.half)
      [] v.t = "string" -> v.s # <<>>
      [] OTHER -> TRUE

\* x === y; two objects are equal only when they are the same object, and an
\* object read from storage is never the object a caller passes
StrictEq(x, y) ==
    /\ x.t = y.t
    /\ x.t \notin {"nan", "object"}
    /\ x = y

\* String.prototype.trim, on the characters
RECURSIVE TrimStart(_)
TrimStart(s) ==
    IF s = <<>> THEN s
    ELSE IF Head(s) = " " THEN TrimStart(Tail(s)) ELSE s

RECURSIVE TrimEnd(_)
TrimEnd(s) ==
    IF s = <<>> THEN s
    ELSE IF s[Len(s)] = " " THEN TrimEnd(SubSeq(s, 1, Len(s) - 1)) ELSE s

Trim(s) == TrimEnd(TrimStart(s))

DigitChars == <<"0", "1", "2", "3", "4", "5", "6", "7", "8", "9">>

IsDigit(c) == \E i \in 1..Len(DigitChars) : DigitChars[i] = c

DigitVal(c) == (CHOOSE i \in 1..Len(DigitChars) : DigitChars[i] = c) - 1

AllDigits(s) == s # <<>> /\ \A i \in 1..Len(s) : IsDigit(s[i])

RECURSIVE DecVal(_)
DecVal(s) ==
    IF s = <<>> THEN 0
    ELSE 10 * DecVal(SubSeq(s, 1, Len(s) - 1)) + DigitVal(s[Len(s)])

\* Number(s) of a string: white space is stripped, the empty string is 0, a
\* decimal integer literal is its value, anything else over the model's
\* characters is NaN
StrToNumber(s) ==
    LET t == Trim(s) IN
    IF t = <<>> THEN Num(0)
    ELSE IF AllDigits(t) THEN Num(DecVal(t))
    ELSE IF Head(t) = "-" /\ AllDigits(Tail(t)) THEN Num(0 - DecVal(Tail(t)))
    ELSE NaN

\* Number(v)
ToNumber(v) ==
    CASE v.t = "undefined" -> NaN
      [] v.t = "null" -> Num(0)
      [] v.t = "boolean" -> Num(v.n)
      [] v.t = "string" -> StrToNumber(v.s)
      [] v.t = "object" -> NaN
      [] OTHER -> v

-----------------------------------------------------------------------------
(* Cell values and log elements *)

\* an element of an array: a primitive p, whose properties are undefined
ElemOf(p) ==
    [t |-> p.t, n |-> p.n, half |-> p.half, s |-> p.s,
     id |-> Undef, name |-> Undef, calories |-> Undef]

\* an element of an array: the object {id, name, calories}; an absent
\* property is undefined
Entry(id, name, calories) ==
    [t |-> "object", n |-> 0, half |-> FALSE, s |-> <<>>,
     id |-> id, name |-> name, calories |-> calories]

\* the value of a cell: the primitive p
CellOf(p) == [t |-> p.t, n |-> p.n, half |-> p.half, s |-> p.s, a |-> <<>>]

\* the value of a cell: the array of the elements a
ArrayCell(a) == [t |-> "array", n |-> 0, half |-> FALSE, s |-> <<>>, a |-> a]

\* the primitive a cell holds (for a cell that holds no array)
PrimOf(c) == Prim(c.t, c.n, c.half, c.s)

-----------------------------------------------------------------------------
(* JSON and the storage slots *)

\* what JSON.stringify writes for a number that is not finite: null
JsonPrim(p) == IF p.t \in {"nan", "inf", "ninf"} THEN Null ELSE p

\* JSON.stringify of an object's property: an undefined property is left out
JsonField(p) == IF p.t = "undefined" THEN Undef ELSE JsonPrim(p)

\* JSON.stringify of an array element: undefined is written as null
JsonElem(e) ==
    IF e.t = "object"
    THEN Entry(JsonField(e.id), JsonField(e.name), JsonField(e.calories))
    ELSE IF e.t = "undefined" THEN ElemOf(Null)
    ELSE ElemOf(JsonPrim(Prim(e.t, e.n, e.half, e.s)))

\* a slot that holds nothing, and one that holds text that is no JSON
AbsentSlot == [st |-> "absent", doc |-> CellOf(Null)]
CorruptSlot == [st |-> "corrupt", doc |-> CellOf(Null)]
JsonSlot(doc) == [st |-> "json", doc |-> doc]

\* the text setItem stores for JSON.stringify(c): the document of c, with
\* what JSON cannot express replaced as above; JSON.stringify(undefined) is
\* undefined, which setItem stores as the text "undefined", no JSON
JSONStringify(c) ==
    IF c.t = "undefined" THEN CorruptSlot
    ELSE IF c.t = "array"
    THEN JsonSlot(ArrayCell([i \in 1..Len(c.a) |-> JsonElem(c.a[i])]))
    ELSE JsonSlot(CellOf(JsonPrim(PrimOf(c))))

\* a read that lets the failure of JSON.parse through: the cell gets no value
ReadInitialUncaught(slot, initialValue) ==
    IF slot.st = "json" THEN slot.doc
    ELSE IF slot.st = "corrupt" THEN [t |-> "undefined", n |-> 0, half |-> FALSE, s |-> <<>>, a |-> <<>>]
    ELSE initialValue

\* the lazy initializer of useState in useLocalStorage: the value parsed from
\* the slot, or initialValue when the slot is empty or JSON.parse throws
ReadInitial(slot, initialValue) ==
    IF slot.st = "json" THEN slot.doc ELSE initialValue

\* console.error calls of the initializer
ReadErrors(slot) == IF slot.st = "corrupt" THEN 1 ELSE 0

\* a goal cell whose default is null
DefaultGoalNull == CellOf(Null)

DefaultGoal == CellOf(Num(2000))
DefaultLog == ArrayCell(<<>>)

-----------------------------------------------------------------------------
(* The execution context *)

\* "ok": window.localStorage works; "nowindow": window is not defined;
\* "denied": every access to window.localStorage throws; "full": getItem
\* works and a setItem may throw (the quota is exceeded)
Envs == {"ok", "nowindow", "denied", "full"}

\* a check of window that always passes
HasWindowAlways(e) == TRUE

\* typeof window !== 'undefined'
HasWindow(e) == e # "nowindow"

\* window.localStorage.getItem(key) throws
GetItemThrows(e) == e = "denied"

\* the sets of cells whose setItem may throw, among the cells `due` to be
\* written in one run of the effects; JSON.stringify throws on none of the
\* values a cell can hold (no cycle, no BigInt)
SetItemFailures(e, due) ==
    IF e = "denied" THEN {due}
    ELSE IF e = "full" THEN SUBSET due
    ELSE {{}}

\* the whole initializer: initialValue without window or when getItem throws
InitialValue(e, slot, initialValue) ==
    IF ~HasWindow(e) \/ GetItemThrows(e) THEN initialValue
    ELSE ReadInitial(slot, initialValue)

\* a write that fails half way and leaves text that is no JSON
WriteSlotTorn(slot, c, fails) ==
    IF fails THEN [st |-> "corrupt", doc |-> CellOf(Null)] ELSE JSONStringify(c)

\* the body of the effect: setItem(key, JSON.stringify(storedValue)); a
\* setItem that throws stores nothing
WriteSlot(slot, c, fails) == IF fails THEN slot ELSE JSONStringify(c)

Cells == {"goal", "log"}

\* no initialization yet
NoBoot ==
    [done |-> FALSE, goalSlot |-> AbsentSlot, logSlot |-> AbsentSlot,
     goal |-> CellOf(Undef), log |-> CellOf(Undef),
     reads |-> {}, decodeErrors |-> {}, readErrors |-> {}]

\* no render yet
NoEff ==
    [mount |-> FALSE, muts |-> [goal |-> 0, log |-> 0], was |-> CellOf(Undef),
     ran |-> FALSE,
     due |-> {}, tried |-> {}, wrote |-> {}, failed |-> {}, intact |-> {}]

\* the page was never closed
NoSnap == [n |-> 0, goal |-> CellOf(Undef), log |-> CellOf(Undef)]

-----------------------------------------------------------------------------
(* State updates *)

\* the updater (prevLog) => [...prevLog, newItem]
AppendUpdate(item) == [kind |-> "append", item |-> item, id |-> Undef]

\* the updater (prevLog) => prevLog.filter((item) => item.id !== itemId)
FilterUpdate(itemId) == [kind |-> "filter", item |-> ElemOf(Undef), id |-> itemId]

Thrown == [ok |-> FALSE, v |-> CellOf(Undef)]
Value(c) == [ok |-> TRUE, v |-> c]

\* [newItem, ...prevLog] in place of [...prevLog, newItem]
SpreadAppendFront(c, item) ==
    IF c.t = "array" THEN [ok |-> TRUE, v |-> ArrayCell(<<item>> \o c.a)]
    ELSE [ok |-> FALSE, v |-> CellOf(Undef)]

\* [newItem] in place of [...prevLog, newItem]
SpreadAppendAlone(c, item) ==
    IF c.t \in {"array", "string"} THEN Value(ArrayCell(<<item>>)) ELSE Thrown

\* [...prevLog, newItem]: an array and a string are iterable, no other value
\* a slot can give is
SpreadAppend(c, item) ==
    IF c.t = "array" THEN Value(ArrayCell(Append(c.a, item)))
    ELSE IF c.t = "string"
    THEN Value(ArrayCell(Append([i \in 1..Len(c.s) |-> ElemOf(Str(<<c.s[i]>>))], item)))
    ELSE Thrown

\* item.id === itemId in place of item.id !== itemId
KeepItemInverted(e, itemId) == StrictEq(e.id, itemId)

\* the predicate of the filter: item.id !== itemId
KeepItem(e, itemId) == ~StrictEq(e.id, itemId)

\* a sequence without its first element whose id is itemId
RECURSIVE DropFirstMatch(_, _)
DropFirstMatch(a, itemId) ==
    IF a = <<>> THEN a
    ELSE IF StrictEq(Head(a).id, itemId) THEN Tail(a)
    ELSE <<Head(a)>> \o DropFirstMatch(Tail(a), itemId)

\* a removal that stops at the first match, in place of the filter
FilterOutFirst(c, itemId) ==
    IF c.t # "array" THEN [ok |-> FALSE, v |-> CellOf(Undef)]
    ELSE [ok |-> TRUE, v |-> ArrayCell(DropFirstMatch(c.a, itemId))]

\* a filter that returns the entries it keeps in reverse order
FilterOutReversed(c, itemId) ==
    IF c.t # "array" THEN [ok |-> FALSE, v |-> CellOf(Undef)]
    ELSE LET kept == SelectSeq(c.a, LAMBDA e : ~StrictEq(e.id, itemId))
         IN [ok |-> TRUE,
             v |-> ArrayCell([i \in 1..Len(kept) |-> kept[Len(kept) + 1 - i]])]

\* prevLog.filter(...): only an array has filter, and reading the id of a
\* null element throws
FilterOut(c, itemId) ==
    IF c.t # "array" THEN Thrown
    ELSE IF \E i \in 1..Len(c.a) : c.a[i].t \in {"null", "undefined"} THEN Thrown
    ELSE Value(ArrayCell(SelectSeq(c.a, LAMBDA e : KeepItem(e, itemId))))

\* an update computed from the rendered log, setStoredLog([...log, newItem]),
\* in place of the updater applied to the previous state
ApplyUpdateStale(r, u) ==
    IF ~r.ok THEN [ok |-> FALSE, v |-> CellOf(Undef)]
    ELSE IF u.kind = "append" THEN SpreadAppend(log, u.item)
    ELSE FilterOut(log, u.id)

\* one updater applied to the previous state
ApplyUpdate(r, u) ==
    IF ~r.ok THEN Thrown
    ELSE IF u.kind = "append" THEN SpreadAppend(r.v, u.item)
    ELSE FilterOut(r.v, u.id)

\* React's processing of a cell's update queue, oldest first
RECURSIVE ApplyUpdates(_, _)
ApplyUpdates(r, q) ==
    IF q = <<>> THEN r ELSE ApplyUpdates(ApplyUpdate(r, Head(q)), Tail(q))

\* the log the next render will show
PendingLog == ApplyUpdates(Value(log), logQueue)

\* the goal the next render will show: the last value set
PendingGoal == IF goalQueue = <<>> THEN goal ELSE goalQueue[Len(goalQueue)]

\* a comparison that finds every value changed
SameValueNever(old, new) == FALSE

\* Object.is of the rendered value and the next one, which decides whether the
\* effect runs again: an updater of the log always builds a new array
SameValue(old, new) == old.t # "array" /\ new.t # "array" /\ old = new

\* an id generator that returns an id already in use
NanoidFixed(k) == Str(<<"a">>)

\* nanoid(): the k-th id it produces; ids are distinct from one another and
\* from the ids found in storage
Nanoid(k) == Str(<<"n", DigitChars[k + 1]>>)

-----------------------------------------------------------------------------
(* Inputs *)

\* what the goal slot may hold when the application starts
GoalSlots ==
    {AbsentSlot, CorruptSlot,
     JsonSlot(CellOf(Num(2500))), JsonSlot(CellOf(Num(0))),
     JsonSlot(CellOf(Num(-5))), JsonSlot(CellOf(Null)),
     JsonSlot(CellOf(Str(<<"a">>)))}

EntryA == Entry(Str(<<"a">>), Str(<<"a">>), Num(100))
EntryB == Entry(Str(<<"b">>), Str(<<"b">>), Num(200))
\* a second entry that carries the id of EntryA
EntryA2 == Entry(Str(<<"a">>), Str(<<"b">>), Num(50))
\* an object that is no well-formed entry: empty id, blank name, negative calories
EntryBad == Entry(Str(<<>>), Str(<<" ">>), Num(-1))

\* an entry without id, and an entry whose calories is a string
EntryNoId == Entry(Undef, Str(<<"a">>), Num(100))
EntryText == Entry(Str(<<"a">>), Str(<<"a">>), Str(<<"1", "2">>))

\* what the log slot may hold when the application starts
LogSlots ==
    {AbsentSlot, CorruptSlot,
     JsonSlot(ArrayCell(<<>>)),
     JsonSlot(ArrayCell(<<EntryA, EntryB>>)),
     JsonSlot(ArrayCell(<<EntryA, EntryA2>>)),
     JsonSlot(ArrayCell(<<EntryBad>>)),
     JsonSlot(ArrayCell(<<EntryNoId>>)),
     JsonSlot(ArrayCell(<<EntryText>>)),
     JsonSlot(ArrayCell(<<ElemOf(Null)>>)),
     JsonSlot(CellOf(Null)),
     JsonSlot(CellOf(Str(<<"a", "b">>)))}

\* candidates passed to setGoal
GoalCandidates ==
    {Num(2500), Num(-100), Num(0), NumHalf(1), NaN, PosInf, NegInf, Null, Undef,
     Str(<<"1", "2">>), Str(<<" ">>), Str(<<"a">>), Bool(TRUE), Obj}

\* names passed to addLogItem
NameInputs ==
    {Str(<<"a">>), Str(<<" ", "a", " ">>), Str(<<>>), Str(<<" ">>), Undef, Num(42)}

\* calories passed to addLogItem
CalorieInputs ==
    {Str(<<"0">>), Num(-50), NumHalf(1), NaN, PosInf}

\* the payloads {name, calories} passed to addLogItem: every name with usual
\* calories, and every calories with usual names
AddPayloads ==
    {[name |-> nm, calories |-> Str(<<"0">>)] : nm \in NameInputs}
    \cup {[name |-> Str(<<" ", "a", " ">>), calories |-> c] : c \in CalorieInputs}

\* ids passed to removeLogItem, besides the id of the entry added last
RemoveIds == {Null, Undef, Str(<<>>), Num(0), Str(<<"a">>), Str(<<"z">>)}

-----------------------------------------------------------------------------
(* Records of the calls *)

Call(op, a1, a2, threw, diags, queued, nid) ==
    [op |-> op, a1 |-> a1, a2 |-> a2, threw |-> threw, diags |-> diags,
     queued |-> queued, nid |-> nid,
     preGoal |-> PendingGoal, preLog |-> PendingLog]

NoCall ==
    [op |-> "none", a1 |-> Undef, a2 |-> Undef, threw |-> FALSE, diags |-> 0,
     queued |-> FALSE, nid |-> Undef,
     preGoal |-> CellOf(Undef), preLog |-> Thrown]

\* what is kept of the call before the latest one: of a call that queued a new
\* entry, its id and the log it was added to
Summary(c) ==
    IF c.op = "addLogItem" /\ c.queued
    THEN [added |-> TRUE, nid |-> c.nid, preLog |-> c.preLog]
    ELSE [added |-> FALSE, nid |-> Undef, preLog |-> Thrown]

-----------------------------------------------------------------------------
(* The validators *)

\* typeof value === 'number' && !isNaN(value) && isFinite(value) && value > 0
isValidPositiveNumber(value) ==
    IsNumberType(value) /\ ~IsNaN(value) /\ IsFinite(value) /\ GtZero(value)

\* typeof value === 'string' && value.trim().length > 0
isNonEmptyString(value) == value.t = "string" /\ Len(Trim(value.s)) > 0

-----------------------------------------------------------------------------
(* The components' own state *)

\* useState('') of foodName, calories, nameError and caloriesError
CalorieInputInitial ==
    [foodName |-> <<>>, calories |-> <<>>, nameError |-> "", caloriesError |-> ""]

\* useState('') of inputValue and error
GoalSetterInitial == [inputValue |-> <<>>, error |-> ""]

\* no form was submitted in the latest event
NoUi ==
    [form |-> "none", click |-> FALSE, calls |-> 0,
     calorieInput |-> CalorieInputInitial, goalSetter |-> GoalSetterInitial]

-----------------------------------------------------------------------------
(* The store *)

Init ==
    /\ goalSlot \in GoalSlots
    /\ logSlot \in LogSlots
    /\ goal = CellOf(Undef)
    /\ log = CellOf(Undef)
    /\ goalQueue = <<>>
    /\ logQueue = <<>>
    /\ phase = "unmounted"
    /\ dirty = {}
    /\ idCount = 0
    /\ last = NoCall
    /\ prev = Summary(NoCall)
    /\ env \in Envs
    /\ env \in {"nowindow", "denied"} => (goalSlot = AbsentSlot /\ logSlot = AbsentSlot)
    /\ boot = NoBoot
    /\ eff = NoEff
    /\ snap = NoSnap
    /\ calorieInput = CalorieInputInitial
    /\ goalSetter = GoalSetterInitial
    /\ ui = NoUi

\* AppProvider's first render: both cells run their initializer; the effects
\* of a first render always run
Mount ==
    /\ phase = "unmounted"
    /\ goal' = InitialValue(env, goalSlot, DefaultGoal)
    /\ log' = InitialValue(env, logSlot, DefaultLog)
    /\ dirty' = {"goal", "log"}
    /\ phase' = "effects"
    /\ boot' = [done |-> TRUE, goalSlot |-> goalSlot, logSlot |-> logSlot,
                goal |-> goal', log |-> log',
                reads |-> IF HasWindow(env) THEN Cells ELSE {},
                decodeErrors |->
                    IF ~HasWindow(env) \/ GetItemThrows(env) THEN {}
                    ELSE (IF ReadErrors(goalSlot) > 0 THEN {"goal"} ELSE {})
                         \cup (IF ReadErrors(logSlot) > 0 THEN {"log"} ELSE {}),
                readErrors |->
                    IF HasWindow(env) /\ GetItemThrows(env) THEN Cells ELSE {}]
    /\ eff' = [NoEff EXCEPT !.mount = TRUE]
    /\ UNCHANGED <<goalQueue, logQueue, goalSlot, logSlot, idCount, last, prev,
                   env, snap>>
    /\ UNCHANGED uiVars

\* the effect of useLocalStorage, for each cell whose storedValue changed
RunEffects ==
    /\ phase = "effects"
    /\ \E failed \in SetItemFailures(env, dirty) :
          LET tried == IF HasWindow(env) THEN dirty ELSE {} IN
          /\ goalSlot' = IF "goal" \in tried
                         THEN WriteSlot(goalSlot, goal, "goal" \in failed)
                         ELSE goalSlot
          /\ logSlot' = IF "log" \in tried
                        THEN WriteSlot(logSlot, log, "log" \in failed)
                        ELSE logSlot
          /\ eff' = [eff EXCEPT !.ran = TRUE, !.due = dirty, !.tried = tried,
                                !.wrote = tried \ failed, !.failed = failed,
                                !.intact =
                                    {c \in dirty \ (tried \ failed) :
                                        \/ c = "goal" /\ goalSlot' = goalSlot
                                        \/ c = "log" /\ logSlot' = logSlot}]
    /\ dirty' = {}
    /\ phase' = "idle"
    /\ UNCHANGED <<goal, log, goalQueue, logQueue, idCount, last, prev, env,
                   boot, snap>>
    /\ UNCHANGED uiVars

\* an event handler may call a store operation
CanCall == phase = "idle" /\ Len(goalQueue) + Len(logQueue) < MaxBatch

\* the guard of handleSetGoal
GoalRejected(goalNumber) == IsNaN(goalNumber) \/ LeqZero(goalNumber)

handleSetGoal(newGoal) ==
    /\ CanCall
    /\ LET goalNumber == ToNumber(newGoal) IN
       IF GoalRejected(goalNumber)
       THEN /\ last' = Call("setGoal", newGoal, Undef, FALSE, 1, FALSE, Undef)
            /\ goalQueue' = goalQueue
       ELSE /\ last' = Call("setGoal", newGoal, Undef, FALSE, 0, TRUE, Undef)
            /\ goalQueue' = Append(goalQueue, CellOf(goalNumber))
    /\ prev' = Summary(last)
    /\ UNCHANGED <<goal, log, logQueue, goalSlot, logSlot, phase, dirty, idCount,
                   env, snap>>
    /\ boot' = NoBoot
    /\ eff' = NoEff

\* name?.trim() throws a TypeError when name is neither a string nor nullish
TrimThrows(name) == name.t \notin {"string", "undefined", "null"}

\* name?.trim()
TrimmedName(name) == IF name.t = "string" THEN Str(Trim(name.s)) ELSE Undef

\* the guards of handleAddLogItem
NameRejected(trimmedName) == ~Truthy(trimmedName)
CaloriesRejected(calorieNumber) == IsNaN(calorieNumber) \/ LtZero(calorieNumber)

handleAddLogItem(item) ==
    /\ CanCall
    /\ LET trimmedName == TrimmedName(item.name)
           calorieNumber == ToNumber(item.calories)
           newItem == Entry(Nanoid(idCount), trimmedName, calorieNumber)
       IN
       IF TrimThrows(item.name)
       THEN /\ last' = Call("addLogItem", item.name, item.calories, TRUE, 0, FALSE, Undef)
            /\ UNCHANGED <<logQueue, idCount>>
       ELSE IF NameRejected(trimmedName) \/ CaloriesRejected(calorieNumber)
       THEN /\ last' = Call("addLogItem", item.name, item.calories, FALSE, 1, FALSE, Undef)
            /\ UNCHANGED <<logQueue, idCount>>
       ELSE /\ idCount < MaxIds
            /\ last' = Call("addLogItem", item.name, item.calories, FALSE, 0, TRUE,
                            newItem.id)
            /\ logQueue' = Append(logQueue, AppendUpdate(newItem))
            /\ idCount' = idCount + 1
    /\ prev' = Summary(last)
    /\ UNCHANGED <<goal, log, goalQueue, goalSlot, logSlot, phase, dirty,
                   env, snap>>
    /\ boot' = NoBoot
    /\ eff' = NoEff

\* itemId == null in place of !itemId
IdRejectedNullish(itemId) == itemId.t \in {"null", "undefined"}

\* the guard of handleRemoveLogItem
IdRejected(itemId) == ~Truthy(itemId)

handleRemoveLogItem(itemId) ==
    /\ CanCall
    /\ IF IdRejected(itemId)
       THEN /\ last' = Call("removeLogItem", itemId, Undef, FALSE, 1, FALSE, Undef)
            /\ logQueue' = logQueue
       ELSE /\ last' = Call("removeLogItem", itemId, Undef, FALSE, 0, TRUE, Undef)
            /\ logQueue' = Append(logQueue, FilterUpdate(itemId))
    /\ prev' = Summary(last)
    /\ UNCHANGED <<goal, log, goalQueue, goalSlot, logSlot, phase, dirty, idCount,
                   env, snap>>
    /\ boot' = NoBoot
    /\ eff' = NoEff

\* React renders AppProvider with the queued updates applied; an updater that
\* throws takes the application down
Render ==
    /\ phase = "idle"
    /\ goalQueue # <<>> \/ logQueue # <<>>
    /\ IF PendingLog.ok
       THEN /\ goal' = PendingGoal
            /\ log' = PendingLog.v
            /\ goalQueue' = <<>>
            /\ logQueue' = <<>>
            /\ dirty' = (IF SameValue(goal, PendingGoal) THEN {} ELSE {"goal"})
                        \cup (IF logQueue = <<>> THEN {} ELSE {"log"})
            /\ phase' = "effects"
            /\ eff' = [NoEff EXCEPT !.muts = [goal |-> Len(goalQueue),
                                              log |-> Len(logQueue)],
                                    !.was = goal]
       ELSE /\ phase' = "crashed"
            /\ UNCHANGED <<goal, log, goalQueue, logQueue, dirty, eff>>
    /\ UNCHANGED <<goalSlot, logSlot, idCount, last, prev, env, boot, snap>>
    /\ UNCHANGED uiVars

\* the tab is closed and the page opened again: a new AppProvider is built on
\* what localStorage holds
Reload ==
    /\ phase = "idle"
    /\ goalQueue = <<>> /\ logQueue = <<>>
    /\ snap.n < MaxReloads
    /\ snap' = [n |-> snap.n + 1, goal |-> goal, log |-> log]
    /\ goal' = CellOf(Undef)
    /\ log' = CellOf(Undef)
    /\ phase' = "unmounted"
    /\ dirty' = {}
    /\ last' = NoCall
    /\ prev' = Summary(NoCall)
    /\ boot' = NoBoot
    /\ eff' = NoEff
    /\ calorieInput' = CalorieInputInitial
    /\ goalSetter' = GoalSetterInitial
    /\ ui' = NoUi
    /\ UNCHANGED <<goalQueue, logQueue, goalSlot, logSlot, idCount, env>>

SetGoal ==
    \E g \in GoalCandidates : handleSetGoal(g) /\ UNCHANGED uiVars
AddLogItem ==
    \E item \in AddPayloads : handleAddLogItem(item) /\ UNCHANGED uiVars
\* the id of the entry added last, which a caller reads from the log
NewestIds == IF idCount = 0 THEN {} ELSE {Nanoid(idCount - 1)}

RemoveLogItem ==
    \E id \in RemoveIds \cup NewestIds : handleRemoveLogItem(id) /\ UNCHANGED uiVars

\* the store with both cells, on a few slots and a few arguments of each kind
StoreGoalSlots == {AbsentSlot, CorruptSlot, JsonSlot(CellOf(Num(2500)))}
StoreLogSlots == {AbsentSlot, CorruptSlot, JsonSlot(ArrayCell(<<EntryA, EntryB>>))}
StoreGoalCandidates == {Num(2500), Num(-100), Null}
StorePayloads ==
    {[name |-> Str(<<" ", "a", " ">>), calories |-> Str(<<"0">>)],
     [name |-> Str(<<" ">>), calories |-> Str(<<"0">>)],
     [name |-> Num(42), calories |-> Str(<<"0">>)],
     [name |-> Str(<<" ", "a", " ">>), calories |-> Num(-50)]}
StoreRemoveIds == {Null, Undef, Str(<<"a">>)}

InitStore ==
    Init /\ env = "ok" /\ goalSlot \in StoreGoalSlots /\ logSlot \in StoreLogSlots
StoreSetGoal ==
    \E g \in StoreGoalCandidates : handleSetGoal(g) /\ UNCHANGED uiVars
StoreAddLogItem ==
    \E item \in StorePayloads : handleAddLogItem(item) /\ UNCHANGED uiVars
StoreRemoveLogItem ==
    \E id \in StoreRemoveIds \cup NewestIds : handleRemoveLogItem(id) /\ UNCHANGED uiVars
Next ==
    Mount \/ RunEffects \/ Render \/ StoreSetGoal \/ StoreAddLogItem
    \/ StoreRemoveLogItem
Spec == InitStore /\ [][Next]_vars

\* the goal cell alone: the log slot starts empty and no log operation is called
InitGoal == Init /\ env = "ok" /\ logSlot = AbsentSlot
NextGoal == Mount \/ RunEffects \/ Render \/ SetGoal
SpecGoal == InitGoal /\ [][NextGoal]_vars

\* the log cell alone: the goal slot starts empty and setGoal is not called
InitLog == Init /\ env = "ok" /\ goalSlot = AbsentSlot
NextLog == Mount \/ RunEffects \/ Render \/ AddLogItem \/ RemoveLogItem
SpecLog == InitLog /\ [][NextLog]_vars

\* the two persistent cells in every execution context
CellGoalCandidates == {Num(2500), Num(-100)}
CellPayloads == {[name |-> Str(<<" ", "a", " ">>), calories |-> Str(<<"0">>)]}
InitCell == Init /\ goalSlot \in StoreGoalSlots /\ logSlot \in StoreLogSlots
CellSetGoal ==
    \E g \in CellGoalCandidates : handleSetGoal(g) /\ UNCHANGED uiVars
CellAddLogItem ==
    \E item \in CellPayloads : handleAddLogItem(item) /\ UNCHANGED uiVars
CellRemoveLogItem ==
    \E id \in {Str(<<"z">>)} \cup NewestIds : handleRemoveLogItem(id) /\ UNCHANGED uiVars
NextCell ==
    Mount \/ RunEffects \/ Render \/ CellSetGoal \/ CellAddLogItem
    \/ CellRemoveLogItem
SpecCell == InitCell /\ [][NextCell]_vars

\* the store closed and opened again, where localStorage works
ReloadGoalCandidates == {Num(2500), PosInf, Num(-100)}
ReloadPayloads ==
    {[name |-> Str(<<" ", "a", " ">>), calories |-> Str(<<"0">>)],
     [name |-> Str(<<" ", "a", " ">>), calories |-> PosInf]}
InitReload == InitStore
ReloadSetGoal ==
    \E g \in ReloadGoalCandidates : handleSetGoal(g) /\ UNCHANGED uiVars
ReloadAddLogItem ==
    \E item \in ReloadPayloads : handleAddLogItem(item) /\ UNCHANGED uiVars
NextReload ==
    Mount \/ RunEffects \/ Render \/ Reload \/ ReloadSetGoal \/ ReloadAddLogItem
SpecReload == InitReload /\ [][NextReload]_vars

-----------------------------------------------------------------------------
(* The components *)

\* the store's variables
storeVars ==
    <<goal, log, goalQueue, logQueue, goalSlot, logSlot, phase, dirty, idCount,
      last, prev, env, boot, eff, snap>>

\* the application is rendered and waits for the next event of the user
CanInteract == phase = "idle" /\ goalQueue = <<>> /\ logQueue = <<>>

\* the longest prefix of a text that consists of digits
RECURSIVE DigitPrefix(_)
DigitPrefix(s) ==
    IF s = <<>> \/ ~IsDigit(Head(s)) THEN <<>>
    ELSE <<Head(s)>> \o DigitPrefix(Tail(s))

\* parseInt(s, 10): leading white space is skipped, a sign is read, then the
\* digits up to the first character that is no digit; NaN when there is none
ParseInt(s) ==
    LET t == TrimStart(s)
        signed == t # <<>> /\ Head(t) \in {"-", "+"}
        digits == DigitPrefix(IF signed THEN Tail(t) ELSE t)
    IN IF digits = <<>> THEN NaN
       ELSE IF signed /\ Head(t) = "-" THEN Num(0 - DecVal(digits))
       ELSE Num(DecVal(digits))

\* the record of a submit of a form: whether it came from a click on the
\* submit button, how many calls of the store it made, and the state of the
\* forms before it
Submitted(form, click, calls) ==
    [form |-> form, click |-> click, calls |-> calls,
     calorieInput |-> calorieInput, goalSetter |-> goalSetter]

\* validateName that finds no name wrong
validateNameLoose(name) == ""

validateName(name) ==
    IF Trim(name) = <<>> THEN "Food name cannot be empty." ELSE ""

\* validateCalories without the test /^\d+$/
validateCaloriesLoose(calValue) ==
    IF Trim(calValue) = <<>> THEN "Calories cannot be empty." ELSE ""

validateCalories(calValue) ==
    IF Trim(calValue) = <<>> THEN "Calories cannot be empty."
    ELSE IF ~AllDigits(Trim(calValue))
    THEN "Calories must be a whole number (0 or more)."
    ELSE ""

handleNameChange(newName) ==
    /\ CanInteract
    /\ calorieInput' = [calorieInput EXCEPT !.foodName = newName,
                                            !.nameError = validateName(newName)]
    /\ ui' = NoUi
    /\ UNCHANGED goalSetter
    /\ UNCHANGED storeVars

handleCaloriesChange(newCalories) ==
    /\ CanInteract
    /\ calorieInput' =
           [calorieInput EXCEPT !.calories = newCalories,
                                !.caloriesError = validateCalories(newCalories)]
    /\ ui' = NoUi
    /\ UNCHANGED goalSetter
    /\ UNCHANGED storeVars

\* isSubmitDisabled of CalorieInput without the two error states
CalorieInputSubmitDisabledByEmptiness(f) ==
    Trim(f.foodName) = <<>> \/ Trim(f.calories) = <<>>

\* isSubmitDisabled of CalorieInput
CalorieInputSubmitDisabled(f) ==
    \/ Trim(f.foodName) = <<>>
    \/ Trim(f.calories) = <<>>
    \/ f.nameError # ""
    \/ f.caloriesError # ""

\* handleSubmit of CalorieInput, on a click on the submit button, which a
\* disabled button does not pass on, or on a submit event of the form
handleSubmit(click) ==
    /\ CanInteract
    /\ click => ~CalorieInputSubmitDisabled(calorieInput)
    /\ LET currentNameError == validateName(calorieInput.foodName)
           currentCaloriesError == validateCalories(calorieInput.calories)
       IN
       IF currentNameError # "" \/ currentCaloriesError # ""
       THEN /\ calorieInput' =
                   [calorieInput EXCEPT !.nameError = currentNameError,
                                        !.caloriesError = currentCaloriesError]
            /\ ui' = Submitted("CalorieInput", click, 0)
            /\ UNCHANGED storeVars
       ELSE /\ handleAddLogItem(
                   [name |-> Str(Trim(calorieInput.foodName)),
                    calories |-> ParseInt(Trim(calorieInput.calories))])
            /\ calorieInput' = CalorieInputInitial
            /\ ui' = Submitted("CalorieInput", click, 1)
    /\ UNCHANGED goalSetter

\* what the user types into the name field and into the calories field
NameTexts == {<<>>, <<" ">>, <<"a">>, <<" ", "a", " ">>}
CalorieTexts == {<<>>, <<" ">>, <<"0">>, <<"1", "2">>, <<"-", "1">>, <<"1", ".", "5">>}

NameChange == \E newName \in NameTexts : handleNameChange(newName)
CaloriesChange == \E newCalories \in CalorieTexts : handleCaloriesChange(newCalories)
CalorieSubmit == \E click \in BOOLEAN : handleSubmit(click)

\* the CalorieInput form on a store that starts on empty storage or on a log
\* of two entries
InitCalorieInput ==
    /\ Init
    /\ env = "ok"
    /\ goalSlot = AbsentSlot
    /\ logSlot \in {AbsentSlot, JsonSlot(ArrayCell(<<EntryA, EntryB>>))}
NextCalorieInput ==
    Mount \/ RunEffects \/ Render \/ NameChange \/ CaloriesChange \/ CalorieSubmit
SpecCalorieInput == InitCalorieInput /\ [][NextCalorieInput]_vars

\* handleInputChange's validation that also takes zero and negative numbers
GoalInputErrorLoose(value) ==
    IF value = <<>> THEN "Goal cannot be empty."
    ELSE IF IsNaN(ParseInt(value))
    THEN "Goal must be a positive whole number (e.g., 1 or more)."
    ELSE ""

\* the error that handleInputChange sets for the value of the input
GoalInputError(value) ==
    IF value = <<>> THEN "Goal cannot be empty."
    ELSE IF IsNaN(ParseInt(value)) \/ LeqZero(ParseInt(value))
    THEN "Goal must be a positive whole number (e.g., 1 or more)."
    ELSE ""

handleInputChange(value) ==
    /\ CanInteract
    /\ goalSetter' = [inputValue |-> value, error |-> GoalInputError(value)]
    /\ ui' = NoUi
    /\ UNCHANGED calorieInput
    /\ UNCHANGED storeVars

\* isSubmitDisabled of GoalSetter, for the goal g of the context
GoalSetterSubmitDisabled(f, g) ==
    \/ f.inputValue = <<>>
    \/ f.error # ""
    \/ (g.t # "null" /\ g.t # "array"
            /\ StrictEq(ParseInt(f.inputValue), PrimOf(g)))

\* handleGoalSubmit, on a click on the submit button, which a disabled button
\* does not pass on, or on a submit event of the form
handleGoalSubmit(click) ==
    /\ CanInteract
    /\ click => ~GoalSetterSubmitDisabled(goalSetter, goal)
    /\ LET parsedValue == ParseInt(goalSetter.inputValue) IN
       IF goalSetter.error # "" \/ goalSetter.inputValue = <<>>
       THEN /\ goalSetter' =
                   [goalSetter EXCEPT !.error =
                        IF goalSetter.inputValue = <<>>
                        THEN "Goal cannot be empty." ELSE @]
            /\ ui' = Submitted("GoalSetter", click, 0)
            /\ UNCHANGED storeVars
       ELSE IF IsNaN(parsedValue) \/ LeqZero(parsedValue)
       THEN /\ goalSetter' =
                   [goalSetter EXCEPT !.error = "Goal must be a positive whole number."]
            /\ ui' = Submitted("GoalSetter", click, 0)
            /\ UNCHANGED storeVars
       ELSE /\ handleSetGoal(parsedValue)
            /\ goalSetter' = [goalSetter EXCEPT !.error = ""]
            /\ ui' = Submitted("GoalSetter", click, 1)
    /\ UNCHANGED calorieInput

\* what the user types into the goal field
GoalTexts ==
    {<<>>, <<" ">>, <<"0">>, <<"-", "5">>, <<"1", ".", "5">>,
     <<"2", "0", "0", "0">>, <<"2", "5", "0", "0">>}

InputChange == \E value \in GoalTexts : handleInputChange(value)
GoalSubmit == \E click \in BOOLEAN : handleGoalSubmit(click)

\* the GoalSetter form on a store that starts on empty storage or on a goal
\* slot that holds 2500 or null
InitGoalSetter ==
    /\ Init
    /\ env = "ok"
    /\ goalSlot \in {AbsentSlot, JsonSlot(CellOf(Num(2500))), JsonSlot(CellOf(Null))}
    /\ logSlot = AbsentSlot
NextGoalSetter == Mount \/ RunEffects \/ Render \/ InputChange \/ GoalSubmit
SpecGoalSetter == InitGoalSetter /\ [][NextGoalSetter]_vars

\* a finite number, counted in halves
Twice(x) == 2 * x.n + (IF x.half THEN 1 ELSE 0)
FromTwice(k) == IF k % 2 = 0 THEN Num(k \div 2) ELSE NumHalf((k - 1) \div 2)

\* x + y of two numbers
Plus(x, y) ==
    IF IsNaN(x) \/ IsNaN(y) THEN NaN
    ELSE IF x.t = "number" /\ y.t = "number" THEN FromTwice(Twice(x) + Twice(y))
    ELSE IF x.t = "number" THEN y
    ELSE IF y.t = "number" \/ x.t = y.t THEN x
    ELSE NaN

\* x - y of two numbers
Minus(x, y) ==
    Plus(x, CASE y.t = "inf" -> NegInf
              [] y.t = "ninf" -> PosInf
              [] y.t = "number" -> FromTwice(0 - Twice(y))
              [] OTHER -> y)

\* the log that the context hands to the components: log || []
ContextLog(lg) ==
    IF lg.t = "array" \/ Truthy(PrimOf(lg)) THEN lg ELSE ArrayCell(<<>>)

\* what an element adds to the total, with a negative number counted too
CountedCaloriesSigned(item) ==
    LET calories == ToNumber(item.calories) IN
    IF IsNaN(calories) THEN Num(0) ELSE calories

\* what an element of the log adds to the total: Number(item?.calories) when
\* that is a number >= 0, and 0 otherwise
CountedCalories(item) ==
    LET calories == ToNumber(item.calories) IN
    IF IsNaN(calories) \/ LtZero(calories) THEN Num(0) ELSE calories

\* log.reduce of ProgressDisplay
RECURSIVE ReduceCalories(_)
ReduceCalories(a) ==
    IF a = <<>> THEN Num(0)
    ELSE Plus(ReduceCalories(SubSeq(a, 1, Len(a) - 1)), CountedCalories(a[Len(a)]))

\* totalConsumedCalories of ProgressDisplay, for the log lg of the context
totalConsumedCalories(lg) ==
    IF lg.t # "array" THEN Num(0) ELSE ReduceCalories(lg.a)

\* isGoalValid of ProgressDisplay, for the goal g of the context
isGoalValid(g) == g.t # "array" /\ IsNumberType(g) /\ GtZero(g)

\* remainingCalories of ProgressDisplay
remainingCalories(g, lg) ==
    IF isGoalValid(g) THEN Minus(PrimOf(g), totalConsumedCalories(lg)) ELSE Null

\* what ProgressDisplay shows: a number of calories, or a text
Calories(x) == [text |-> "calories", n |-> x]
Text(s) == [text |-> s, n |-> Null]

\* remainingDisplay of ProgressDisplay
remainingDisplay(g, lg) ==
    IF isGoalValid(g) /\ remainingCalories(g, lg) # Null
    THEN Calories(remainingCalories(g, lg))
    ELSE Text("N/A (Goal not set)")

\* goalDisplay of ProgressDisplay
goalDisplay(g) == IF isGoalValid(g) THEN Calories(PrimOf(g)) ELSE Text("Not set")

\* the elements for which LogList renders a LogItem
LogListPasses(item) == Truthy(item) /\ item.id.t \notin {"undefined", "null"}

\* the elements for which LogItem renders a row
LogItemRenders(item) ==
    /\ Truthy(item)
    /\ item.id.t = "string"
    /\ item.name.t = "string"
    /\ IsNumberType(item.calories)
    /\ ~LtZero(item.calories)

\* the rows of LogList, for the log lg of the context
RenderedEntries(lg) ==
    IF lg.t # "array" THEN <<>>
    ELSE SelectSeq(lg.a, LAMBDA item : LogListPasses(item) /\ LogItemRenders(item))

\* what the slots may hold when the composed application starts, and what
\* the user types
AppGoalSlots ==
    {AbsentSlot, JsonSlot(CellOf(Null)), JsonSlot(CellOf(Num(0))),
     JsonSlot(CellOf(Str(<<"a">>)))}
AppLogSlots ==
    {AbsentSlot, JsonSlot(ArrayCell(<<EntryA, EntryB>>)),
     JsonSlot(ArrayCell(<<EntryBad>>)), JsonSlot(ArrayCell(<<EntryNoId>>)),
     JsonSlot(ArrayCell(<<EntryText>>)), JsonSlot(CellOf(Null))}
AppGoalTexts == {<<"0">>, <<"5">>}
AppNameTexts == {<<"a">>}
AppCalorieTexts == {<<"1", "2">>, <<"-", "1">>}

\* App: AppProvider around GoalSetter, ProgressDisplay, CalorieInput, LogList
\* and FoodSuggestions; the events of the user are those of the two forms:
\* the rows of LogList and the suggestions carry no control
InitApp == Init /\ env = "ok" /\ goalSlot \in AppGoalSlots /\ logSlot \in AppLogSlots
AppInputChange == \E value \in AppGoalTexts : handleInputChange(value)
AppGoalSubmit == \E click \in BOOLEAN : handleGoalSubmit(click)
AppNameChange == \E newName \in AppNameTexts : handleNameChange(newName)
AppCaloriesChange == \E newCalories \in AppCalorieTexts : handleCaloriesChange(newCalories)
AppCalorieSubmit == \E click \in BOOLEAN : handleSubmit(click)
NextApp ==
    Mount \/ RunEffects \/ Render \/ AppInputChange \/ AppGoalSubmit
    \/ AppNameChange \/ AppCaloriesChange \/ AppCalorieSubmit
SpecApp == InitApp /\ [][NextApp]_vars

-----------------------------------------------------------------------------
(* Properties of the store operations *)

\* the store has rendered at least once and is up
Mounted == phase \in {"idle", "effects"}

\* a log that is a list of entries: an array none of whose elements is null
IsList(c) == c.t = "array" /\ \A i \in 1..Len(c.a) : c.a[i].t \notin {"null", "undefined"}

\* the call recorded in `last` was made on a log that is a list
OnList == last.preLog.ok /\ IsList(last.preLog.v)

\* the positions of a list whose entry carries the id
Matches(a, id) == {i \in 1..Len(a) : StrictEq(a[i].id, id)}

\* b is a with exactly the positions in `gone` taken out, the rest in order
IsWithout(b, a, gone) ==
    LET kept == (1..Len(a)) \ gone IN
    /\ Len(b) = Cardinality(kept)
    /\ \A i \in kept : b[Cardinality({j \in kept : j <= i})] = a[i]

\* C1: setGoal(g) makes goal the numeric coercion of g if and only if g
\* coerces to a finite number strictly greater than 0; for every other
\* candidate goal keeps the value it had before the call.
C1_SetGoalIffFinitePositive ==
    last.op = "setGoal" =>
        LET c == ToNumber(last.a1) IN
        IF IsFinite(c) /\ GtZero(c)
        THEN PendingGoal = CellOf(c)
        ELSE PendingGoal = last.preGoal

\* setGoal(Infinity) was rendered and persisted: goal is Infinity and the slot
\* holds null
C1_Witness ==
    /\ last.op = "setGoal" /\ last.a1 = PosInf
    /\ phase = "idle" /\ goalQueue = <<>>
    /\ goal = CellOf(PosInf)
    /\ goalSlot = JsonSlot(CellOf(Null))

\* the name and the calories the claims call valid
ValidName(name) == name.t = "string" /\ Trim(name.s) # <<>>
ValidCalories(calories) ==
    LET c == ToNumber(calories) IN IsFinite(c) /\ ~LtZero(c)

\* C2: addLogItem({name, calories}) appends an entry if and only if name trims
\* to a non-empty string and calories coerces to a finite number >= 0; the
\* appended entry's name is the trimmed input and its calories the numeric
\* coercion of the input.
C2_AddIffValid ==
    (last.op = "addLogItem" /\ OnList) =>
        IF ValidName(last.a1) /\ ValidCalories(last.a2)
        THEN /\ PendingLog.ok
             /\ PendingLog.v.a =
                    Append(last.preLog.v.a,
                           Entry(last.nid, Str(Trim(last.a1.s)), ToNumber(last.a2)))
        ELSE PendingLog = last.preLog

\* addLogItem with calories Infinity was rendered: the log ends with an entry
\* whose calories is Infinity
C2_Witness ==
    /\ last.op = "addLogItem" /\ last.a2 = PosInf /\ OnList
    /\ phase = "idle" /\ logQueue = <<>>
    /\ log.a[Len(log.a)].calories = PosInf

\* C3: a successful addLogItem on a log L yields exactly L followed by one new
\* entry: the length grows by one, the new entry is last, and every prior
\* entry is still present, unchanged and in the same position.
C3_AddAppendsOne ==
    (last.op = "addLogItem" /\ last.queued /\ OnList) =>
        /\ PendingLog.ok
        /\ PendingLog.v.t = "array"
        /\ LET old == last.preLog.v.a
               new == PendingLog.v.a
           IN /\ Len(new) = Len(old) + 1
              /\ new[Len(new)].id = last.nid
              /\ \A i \in 1..Len(old) : new[i] = old[i]

\* an addLogItem was rendered on a log that held entries
C3_Witness ==
    /\ last.op = "addLogItem" /\ last.queued /\ OnList
    /\ Len(last.preLog.v.a) = 2
    /\ phase = "idle" /\ logQueue = <<>>
    /\ Len(log.a) = 3

\* C4 as stated: removeLogItem(id) with an id that occurs in the log removes
\* the first entry whose id equals id and only that entry: the log shrinks by
\* exactly one and all other entries remain, in their previous relative order.
C4_RemoveFirstOnly ==
    (last.op = "removeLogItem" /\ last.queued /\ OnList
        /\ Matches(last.preLog.v.a, last.a1) # {}) =>
        LET old == last.preLog.v.a
            first == CHOOSE i \in Matches(old, last.a1) :
                         \A j \in Matches(old, last.a1) : i <= j
        IN /\ PendingLog.ok
           /\ Len(PendingLog.v.a) = Len(old) - 1
           /\ IsWithout(PendingLog.v.a, old, {first})

\* C4, amended: removeLogItem(id) with an id that occurs in the log removes
\* every entry whose id equals id and only those; all other entries remain,
\* in their previous relative order, and the log shrinks by exactly one when
\* exactly one entry carries the id.
C4_RemoveAllWithId ==
    (last.op = "removeLogItem" /\ last.queued /\ OnList
        /\ Matches(last.preLog.v.a, last.a1) # {}) =>
        LET old == last.preLog.v.a
            gone == Matches(old, last.a1)
        IN /\ PendingLog.ok
           /\ PendingLog.v.t = "array"
           /\ IsWithout(PendingLog.v.a, old, gone)
           /\ Cardinality(gone) = 1 => Len(PendingLog.v.a) = Len(old) - 1

\* a removal by an id that two entries carry was rendered
C4_Witness ==
    /\ last.op = "removeLogItem" /\ last.queued /\ OnList
    /\ Cardinality(Matches(last.preLog.v.a, last.a1)) = 2
    /\ phase = "idle" /\ logQueue = <<>>
    /\ log.a = <<>>

\* C5: removeLogItem(id) with an id that matches no entry leaves the log's
\* content and order exactly as before, for any log and any number of
\* repetitions, and the value persisted for the log is the encoding of that
\* unchanged log.
C5_RemoveAbsentIdKeepsLog ==
    (last.op = "removeLogItem" /\ OnList
        /\ Matches(last.preLog.v.a, last.a1) = {}) =>
        /\ PendingLog = last.preLog
        /\ (phase = "idle" /\ logQueue = <<>>) =>
               /\ log = last.preLog.v
               /\ logSlot = JSONStringify(last.preLog.v)

\* a removal by an unknown id, repeated, rendered and persisted on a log that
\* holds entries
C5_Witness ==
    /\ last.op = "removeLogItem" /\ last.queued /\ OnList
    /\ last.a1 = Str(<<"z">>)
    /\ Len(last.preLog.v.a) = 2
    /\ phase = "idle" /\ logQueue = <<>>
    /\ logSlot.st = "json" /\ Len(logSlot.doc.a) = 2

\* C6: round trip: for any prior log, a successful addLogItem immediately
\* followed by removeLogItem with the id of the entry just added restores
\* the log to its prior content and order.
C6_AddThenRemoveRestores ==
    (last.op = "removeLogItem" /\ prev.added /\ StrictEq(last.a1, prev.nid)
        /\ prev.preLog.ok /\ IsList(prev.preLog.v)) =>
        /\ PendingLog = prev.preLog
        /\ (phase = "idle" /\ logQueue = <<>>) => log = prev.preLog.v

\* an entry was added to a log that held entries, then removed by its id, and
\* the result rendered
C6_Witness ==
    /\ last.op = "removeLogItem" /\ prev.added /\ StrictEq(last.a1, prev.nid)
    /\ prev.preLog.ok /\ IsList(prev.preLog.v) /\ Len(prev.preLog.v.a) = 2
    /\ phase = "idle" /\ logQueue = <<>>

\* the arguments the claims call invalid
InvalidCall(c) ==
    \/ c.op = "setGoal" /\ ~(IsFinite(ToNumber(c.a1)) /\ GtZero(ToNumber(c.a1)))
    \/ c.op = "addLogItem" /\ ~(ValidName(c.a1) /\ ValidCalories(c.a2))
    \/ c.op = "removeLogItem" /\ c.a1.t \in {"null", "undefined"}

\* C7: every call to setGoal, addLogItem or removeLogItem whose argument is
\* invalid returns normally without throwing, emits exactly one diagnostic,
\* leaves both goal and log unchanged, and causes no write of a new value to
\* storage.
C7_InvalidCallIsNoOp ==
    InvalidCall(last) =>
        /\ ~last.threw
        /\ last.diags = 1
        /\ PendingGoal = last.preGoal
        /\ PendingLog = last.preLog
        /\ ~last.queued

\* addLogItem was called with a name that is a number, and threw
C7_Witness == last.op = "addLogItem" /\ last.a1.t = "number" /\ last.threw

\* C8 as stated: removeLogItem(id) fails silently with a diagnostic when id is
\* null or undefined; for every other id value the removal is carried out.
C8_RejectsOnlyNullish ==
    last.op = "removeLogItem" =>
        IF last.a1.t \in {"null", "undefined"}
        THEN ~last.threw /\ last.diags = 1 /\ ~last.queued /\ PendingLog = last.preLog
        ELSE /\ ~last.threw /\ last.diags = 0 /\ last.queued
             /\ OnList => (PendingLog.ok /\ Matches(PendingLog.v.a, last.a1) = {})

\* the values for which !v holds
Falsy == {Null, Undef, Str(<<>>), Num(0), NaN, Bool(FALSE)}

\* C8, amended: removeLogItem(id) fails silently with a diagnostic when id is
\* falsy (null, undefined, the empty string, 0, NaN, false); for every other
\* id value the removal is carried out (every entry whose id equals it is
\* removed).
C8_RejectsFalsy ==
    last.op = "removeLogItem" =>
        IF last.a1 \in Falsy
        THEN ~last.threw /\ last.diags = 1 /\ ~last.queued /\ PendingLog = last.preLog
        ELSE /\ ~last.threw /\ last.diags = 0 /\ last.queued
             /\ OnList => (PendingLog.ok /\ Matches(PendingLog.v.a, last.a1) = {})

\* removeLogItem('') was called on a log that holds an entry whose id is ''
C8_Witness ==
    /\ last.op = "removeLogItem" /\ last.a1 = Str(<<>>)
    /\ OnList /\ Matches(last.preLog.v.a, last.a1) # {}
    /\ phase = "idle"

\* C9: in every reachable state of the store, starting from initialization on
\* any persisted content, goal is either absent (null) or a number strictly
\* greater than 0.
C9_GoalNullOrPositive ==
    Mounted => (goal.t = "null" \/ (IsNumberType(goal) /\ GtZero(goal)))

\* the store started on a goal slot that holds a number that is not positive
C9_Witness == Mounted /\ goal.t = "number" /\ ~GtZero(goal)

\* C10: in every reachable state of the store, every entry in the log has a
\* string id, a name that is non-empty and equal to its own trimmed form, and
\* a calories value that is a non-negative integer.
C10_EntriesWellFormed ==
    (Mounted /\ log.t = "array") =>
        \A i \in 1..Len(log.a) :
            LET e == log.a[i] IN
            /\ e.t = "object"
            /\ e.id.t = "string"
            /\ e.name.t = "string" /\ e.name.s # <<>> /\ Trim(e.name.s) = e.name.s
            /\ IsInteger(e.calories) /\ e.calories.n >= 0

\* on empty storage, addLogItem with calories 1.5 was rendered
C10_Witness ==
    /\ last.op = "addLogItem" /\ last.a2 = NumHalf(1)
    /\ phase = "idle" /\ logQueue = <<>>
    /\ log = ArrayCell(<<Entry(Nanoid(0), Str(<<"a">>), NumHalf(1))>>)

-----------------------------------------------------------------------------
(* Properties of the log as a whole, of initialization and of persistence *)

\* C11: across any sequence of store operations, an entry's id, name and
\* calories never change while it is in the log, and any two entries that are
\* in the log before and after an operation keep their relative order: what
\* an operation leaves of the log is the previous log with some entries taken
\* out, every other entry unchanged and in order, and a new entry comes last.
C11_EntriesKeptInOrder ==
    (last.op # "none" /\ OnList) =>
        LET old == last.preLog.v.a
            k == IF last.op = "addLogItem" /\ last.queued THEN 1 ELSE 0
        IN /\ PendingLog.ok
           /\ PendingLog.v.t = "array"
           /\ Len(PendingLog.v.a) >= k
           /\ \E gone \in SUBSET (1..Len(old)) :
                  IsWithout(SubSeq(PendingLog.v.a, 1, Len(PendingLog.v.a) - k),
                            old, gone)
           /\ k = 1 => PendingLog.v.a[Len(PendingLog.v.a)].id = last.nid

\* the first of three entries was removed and the log rendered: the stored
\* second entry and the added entry remain, in that order
C11_Witness ==
    /\ last.op = "removeLogItem" /\ last.queued /\ OnList
    /\ Len(last.preLog.v.a) = 3
    /\ phase = "idle" /\ logQueue = <<>>
    /\ Len(log.a) = 2
    /\ log.a[1] = EntryB
    /\ log.a[2].id = Nanoid(0)

\* C12: initialization with no persisted data in either slot yields
\* goal = 2000 and log = the empty list.
C12_EmptyStorageGivesDefaults ==
    (boot.done /\ boot.goalSlot = AbsentSlot /\ boot.logSlot = AbsentSlot) =>
        /\ boot.goal = CellOf(Num(2000))
        /\ boot.log = ArrayCell(<<>>)
        /\ goal = CellOf(Num(2000))
        /\ log = ArrayCell(<<>>)

\* the store was initialized on empty storage that works, and its effects ran
C12_Witness ==
    /\ boot.done /\ env = "ok"
    /\ boot.goalSlot = AbsentSlot /\ boot.logSlot = AbsentSlot
    /\ phase = "idle"
    /\ goal = CellOf(Num(2000)) /\ log = ArrayCell(<<>>)

\* what a cell is initialized to from its own slot
FromOwnSlot(slot, default) == IF slot.st = "json" THEN slot.doc ELSE default

\* C13: when the persisted bytes of one slot (goal or log) are not valid JSON,
\* initialization gives that cell its default (2000, respectively the empty
\* list) and emits a decode diagnostic, while the other cell is initialized
\* from its own slot exactly as if the first slot were intact.
C13_CorruptSlotFallsBack ==
    boot.done =>
        /\ boot.goalSlot = CorruptSlot =>
               /\ goal = CellOf(Num(2000))
               /\ "goal" \in boot.decodeErrors
               /\ log = FromOwnSlot(boot.logSlot, ArrayCell(<<>>))
               /\ boot.logSlot # CorruptSlot => "log" \notin boot.decodeErrors
        /\ boot.logSlot = CorruptSlot =>
               /\ log = ArrayCell(<<>>)
               /\ "log" \in boot.decodeErrors
               /\ goal = FromOwnSlot(boot.goalSlot, CellOf(Num(2000)))
               /\ boot.goalSlot # CorruptSlot => "goal" \notin boot.decodeErrors

\* the store was initialized on a goal slot that is no JSON and a log slot
\* that holds two entries
C13_Witness ==
    /\ boot.done
    /\ boot.goalSlot = CorruptSlot
    /\ boot.logSlot = JsonSlot(ArrayCell(<<EntryA, EntryB>>))
    /\ goal = CellOf(Num(2000))
    /\ log = ArrayCell(<<EntryA, EntryB>>)
    /\ boot.decodeErrors = {"goal"}

\* no update waits for a render and no effect waits to run
Quiescent == phase = "idle" /\ goalQueue = <<>> /\ logQueue = <<>>

\* the cell a store operation works on
CellOfOp(op) == IF op = "setGoal" THEN "goal" ELSE "log"

\* JSON.parse of what a slot holds gives the value c
DecodesTo(slot, c) == slot.st = "json" /\ slot.doc = c

\* C14: after every successful setGoal, addLogItem or removeLogItem, a write
\* to the corresponding storage slot occurs, and once it completes the slot
\* holds the JSON encoding of the new in-memory value; in every quiescent
\* state each slot decodes to the in-memory value of its cell.
C14_SlotsFollowMemory ==
    (Quiescent /\ env = "ok") =>
        /\ (last.queued /\ eff.ran) =>
               /\ CellOfOp(last.op) \in eff.wrote
               /\ last.op = "setGoal" => goalSlot = JSONStringify(goal)
               /\ last.op # "setGoal" => logSlot = JSONStringify(log)
        /\ DecodesTo(goalSlot, goal)
        /\ DecodesTo(logSlot, log)

\* setGoal(Infinity) was rendered and its write completed: the goal slot
\* holds the encoding of the goal and does not decode to it
C14_Witness ==
    /\ Quiescent /\ env = "ok"
    /\ last.op = "setGoal" /\ last.queued /\ eff.ran /\ "goal" \in eff.wrote
    /\ goal = CellOf(PosInf)
    /\ goalSlot = JSONStringify(goal)
    /\ ~DecodesTo(goalSlot, goal)

\* C15: reload round trip: after any sequence of store operations with
\* storage writes succeeding, initializing a fresh store from the same storage
\* yields exactly the goal and the log (same entries, same order) that the
\* previous store held.
C15_ReloadRestores ==
    (snap.n > 0 /\ boot.done /\ env = "ok") =>
        /\ goal = snap.goal
        /\ log = snap.log

\* the page was closed on a goal of Infinity and opened again: the goal is null
C15_Witness ==
    /\ snap.n > 0 /\ boot.done /\ env = "ok"
    /\ snap.goal = CellOf(PosInf)
    /\ goal = CellOf(Null)

\* writes to the slot of cell c in the latest run of the effects
WritesTo(c) == IF c \in eff.tried THEN 1 ELSE 0

Unwritten == eff.due \ eff.wrote

\* the rendered state holds what the latest call produced
MemoryHoldsMutation ==
    last.queued =>
        /\ last.op = "setGoal" => goal = CellOf(ToNumber(last.a1))
        /\ last.op = "addLogItem" =>
               /\ log.t = "array" /\ Len(log.a) > 0
               /\ log.a[Len(log.a)].id = last.nid
        /\ (last.op = "removeLogItem" /\ log.t = "array") =>
               Matches(log.a, last.a1) = {}

C18_NoWindowTouchesNothing ==
    env = "nowindow" =>
        /\ boot.done =>
               /\ boot.reads = {}
               /\ boot.decodeErrors = {} /\ boot.readErrors = {}
               /\ goal = CellOf(Num(2000))
               /\ log = ArrayCell(<<>>)
        /\ eff.tried = {} /\ eff.wrote = {} /\ eff.failed = {}
        /\ goalSlot = AbsentSlot
        /\ logSlot = AbsentSlot

\* without window an entry was added and rendered: the write of the log was
\* due and nothing was written
C18_Witness ==
    /\ env = "nowindow" /\ eff.ran /\ ~eff.mount
    /\ last.op = "addLogItem" /\ last.queued
    /\ eff.due = {"log"} /\ eff.tried = {}
    /\ Len(log.a) = 1
    /\ logSlot = AbsentSlot

\* C19: no error condition is fatal: for any content of the two storage slots
\* at start-up (absent, corrupt, or any valid JSON value of any shape) and any
\* sequence of setGoal, addLogItem and removeLogItem calls, no store operation
\* and no state update throws.
C19_NothingThrows == phase # "crashed" /\ ~last.threw

\* the log slot held the JSON value null and a valid entry was added: the
\* updater threw in the render
C19_Witness ==
    /\ phase = "crashed"
    /\ log = CellOf(Null)
    /\ last.op = "addLogItem" /\ last.queued /\ ~last.threw
    /\ ~PendingLog.ok

\* C20: any number of addLogItem calls with valid payloads issued one after
\* another, including several issued within the same event before the state
\* is re-rendered, all take effect: the log contains one entry per call, in
\* call order, none lost, and the entries have pairwise distinct ids. Stated
\* for each two consecutive calls: after the second the log is the log before
\* the first followed by the entry of the first and the entry of the second.
C20_AllAddsTakeEffect ==
    (last.op = "addLogItem" /\ last.queued /\ prev.added
        /\ prev.preLog.ok /\ IsList(prev.preLog.v)) =>
        LET old == prev.preLog.v.a
            n == Len(old)
        IN /\ PendingLog.ok
           /\ PendingLog.v.t = "array"
           /\ Len(PendingLog.v.a) = n + 2
           /\ SubSeq(PendingLog.v.a, 1, n) = old
           /\ PendingLog.v.a[n + 1].id = prev.nid
           /\ PendingLog.v.a[n + 2] =
                  Entry(last.nid, Str(Trim(last.a1.s)), ToNumber(last.a2))
           /\ prev.nid # last.nid
           /\ \A i \in 1..n : old[i].id \notin {prev.nid, last.nid}

\* two entries were added within one event to a log of two entries, and the
\* log was rendered with both
C20_Witness ==
    /\ last.op = "addLogItem" /\ last.queued /\ prev.added
    /\ eff.ran /\ eff.muts.log = 2
    /\ prev.preLog.ok /\ prev.preLog.v = ArrayCell(<<EntryA, EntryB>>)
    /\ Len(log.a) = 4
    /\ log.a[3].id = Nanoid(0) /\ log.a[4].id = Nanoid(1)

-----------------------------------------------------------------------------
(* The validators, the components and the composed application *)

\* C21: the store's mutation guards apply the semantics of the validators:
\* setGoal accepts a candidate exactly when isValidPositiveNumber is true of
\* its numeric coercion, and addLogItem's name guard accepts a name exactly
\* when isNonEmptyString is true of it.
C21_GuardsMatchValidators ==
    /\ last.op = "setGoal" =>
           (~GoalRejected(ToNumber(last.a1))
                <=> isValidPositiveNumber(ToNumber(last.a1)))
    /\ last.op = "addLogItem" =>
           ((~TrimThrows(last.a1) /\ ~NameRejected(TrimmedName(last.a1)))
                <=> isNonEmptyString(last.a1))

\* setGoal(Infinity) passed the guard of the store, and isValidPositiveNumber
\* is false of Infinity
C21_Witness ==
    /\ last.op = "setGoal" /\ last.a1 = PosInf /\ last.queued
    /\ ~GoalRejected(ToNumber(last.a1))
    /\ ~isValidPositiveNumber(ToNumber(last.a1))

\* the name and the calories text that the claims on CalorieInput call valid:
\* a name that trims to non-empty, and the digits of a whole number >= 0
NameTextValid(name) == Trim(name) # <<>>
CaloriesTextValid(calories) == AllDigits(Trim(calories))

\* C22: the CalorieInput form calls addLogItem exactly once for each submit
\* in which the food name trims to non-empty and the calories text is a
\* non-negative whole number, with payload {name: the trimmed name, calories:
\* that integer}; on every other submit addLogItem is not called.
C22_SubmitCallsAddIffValid ==
    ui.form = "CalorieInput" =>
        IF NameTextValid(ui.calorieInput.foodName)
               /\ CaloriesTextValid(ui.calorieInput.calories)
        THEN /\ ui.calls = 1
             /\ last.op = "addLogItem"
             /\ last.a1 = Str(Trim(ui.calorieInput.foodName))
             /\ last.a2 = Num(DecVal(Trim(ui.calorieInput.calories)))
        ELSE ui.calls = 0

\* ' a ' and '12' were submitted and the log rendered: it ends with the entry
\* {name: 'a', calories: 12}
C22_Witness ==
    /\ ui.form = "CalorieInput" /\ ui.calls = 1
    /\ ui.calorieInput.foodName = <<" ", "a", " ">>
    /\ ui.calorieInput.calories = <<"1", "2">>
    /\ last.op = "addLogItem" /\ last.queued
    /\ phase = "idle" /\ logQueue = <<>>
    /\ log.a[Len(log.a)] = Entry(last.nid, Str(<<"a">>), Num(12))

\* C23: in every state of the CalorieInput form reachable by any sequence of
\* name changes, calories changes and submits, the submit button is enabled
\* if and only if the current name trims to non-empty and the current
\* calories text is a non-negative whole number.
C23_EnabledIffValid ==
    ~CalorieInputSubmitDisabled(calorieInput)
        <=> (NameTextValid(calorieInput.foodName)
                 /\ CaloriesTextValid(calorieInput.calories))

\* after an entry was added, 'a' and '0' were typed into the emptied form:
\* the button is enabled
C23_Witness ==
    /\ ~CalorieInputSubmitDisabled(calorieInput)
    /\ calorieInput.foodName = <<"a">>
    /\ calorieInput.calories = <<"0">>
    /\ last.op = "addLogItem" /\ last.queued
    /\ CanInteract

\* C24: after a CalorieInput submission that calls addLogItem the form is
\* back in its initial state (both fields empty, both error messages empty);
\* after a submission that is rejected both field values are what they were
\* before the submit and the error message of each invalid field is shown.
C24_ResetOrKeepWithErrors ==
    ui.form = "CalorieInput" =>
        IF ui.calls > 0
        THEN /\ calorieInput.foodName = <<>> /\ calorieInput.calories = <<>>
             /\ calorieInput.nameError = "" /\ calorieInput.caloriesError = ""
        ELSE /\ calorieInput.foodName = ui.calorieInput.foodName
             /\ calorieInput.calories = ui.calorieInput.calories
             /\ ~NameTextValid(calorieInput.foodName) =>
                    calorieInput.nameError = "Food name cannot be empty."
             /\ ~CaloriesTextValid(calorieInput.calories) =>
                    calorieInput.caloriesError =
                        (IF Trim(calorieInput.calories) = <<>>
                         THEN "Calories cannot be empty."
                         ELSE "Calories must be a whole number (0 or more).")

\* the untouched form was submitted: both fields are still empty and both
\* messages are shown
C24_Witness ==
    /\ ui.form = "CalorieInput" /\ ui.calls = 0
    /\ ui.calorieInput = CalorieInputInitial
    /\ calorieInput.foodName = <<>> /\ calorieInput.calories = <<>>
    /\ calorieInput.nameError = "Food name cannot be empty."
    /\ calorieInput.caloriesError = "Calories cannot be empty."

\* the texts that the claims on GoalSetter call a positive whole number, and
\* empty, zero or negative
GoalTextPositive(value) == AllDigits(value) /\ DecVal(value) > 0
GoalTextRefused(value) ==
    \/ value = <<>>
    \/ AllDigits(value) /\ DecVal(value) = 0
    \/ value # <<>> /\ Head(value) = "-" /\ AllDigits(Tail(value))

\* the message that matches a refused text
GoalMessageMatches(error, value) ==
    IF value = <<>> THEN error = "Goal cannot be empty."
    ELSE error \in {"Goal must be a positive whole number (e.g., 1 or more).",
                    "Goal must be a positive whole number."}

\* the calls of setGoal that C25 asks for: one, with the numeric value, for
\* each submit of a positive whole number, none for a refused input
GoalSubmitCallsSetGoal ==
    ui.form = "GoalSetter" =>
        /\ GoalTextPositive(ui.goalSetter.inputValue) =>
               /\ ui.calls = 1
               /\ last.op = "setGoal"
               /\ last.a1 = Num(DecVal(ui.goalSetter.inputValue))
        /\ GoalTextRefused(ui.goalSetter.inputValue) => ui.calls = 0

C26_NeverSetsCurrentGoal ==
    /\ (Mounted /\ goal.t # "array"
            /\ StrictEq(ParseInt(goalSetter.inputValue), PrimOf(goal))) =>
           GoalSetterSubmitDisabled(goalSetter, goal)
    /\ (ui.form = "GoalSetter" /\ ui.calls > 0) =>
           ~StrictEq(last.a1, PrimOf(last.preGoal))

\* with a goal of 2000 and '2000' in the input, whose button is disabled, a
\* submit event of the form called setGoal(2000)
C26_Witness ==
    /\ ui.form = "GoalSetter" /\ ~ui.click /\ ui.calls = 1
    /\ ui.goalSetter.inputValue = <<"2", "0", "0", "0">>
    /\ GoalSetterSubmitDisabled(ui.goalSetter, last.preGoal)
    /\ last.op = "setGoal" /\ last.a1 = Num(2000)
    /\ last.preGoal = CellOf(Num(2000))

\* the goal and the log that the components receive from the context
ShownGoal == goal
ShownLog == ContextLog(log)

\* the plain sum of the calories of all elements of a list
RECURSIVE SumOfCalories(_)
SumOfCalories(a) ==
    IF a = <<>> THEN Num(0)
    ELSE Plus(SumOfCalories(SubSeq(a, 1, Len(a) - 1)), ToNumber(a[Len(a)].calories))

\* the sum of the calories of those elements of a list whose calories is, or
\* coerces to, a number >= 0
RECURSIVE SumOfNonNegativeCalories(_)
SumOfNonNegativeCalories(a) ==
    IF a = <<>> THEN Num(0)
    ELSE LET c == ToNumber(a[Len(a)].calories)
             rest == SumOfNonNegativeCalories(SubSeq(a, 1, Len(a) - 1))
         IN IF IsNumberType(c) /\ ~IsNaN(c) /\ ~LtZero(c) THEN Plus(rest, c) ELSE rest

\* what C27 says of the goal and of the remaining calories
GoalAndRemainingShown ==
    IF ShownGoal.t # "array" /\ IsNumberType(ShownGoal) /\ GtZero(ShownGoal)
    THEN /\ remainingDisplay(ShownGoal, ShownLog) =
                Calories(Minus(PrimOf(ShownGoal), totalConsumedCalories(ShownLog)))
         /\ goalDisplay(ShownGoal) = Calories(PrimOf(ShownGoal))
    ELSE /\ remainingDisplay(ShownGoal, ShownLog) = Text("N/A (Goal not set)")
         /\ goalDisplay(ShownGoal) = Text("Not set")

C28_CellsAreIndependent ==
    /\ last.op = "setGoal" => PendingLog = last.preLog
    /\ last.op \in {"addLogItem", "removeLogItem"} => PendingGoal = last.preGoal
    /\ (eff.ran /\ ~eff.mount) =>
           /\ eff.muts.log = 0 => "log" \notin eff.tried
           /\ eff.muts.goal = 0 => "goal" \notin eff.tried
    /\ (Quiescent /\ last.op = "setGoal" /\ eff.muts.log = 0) =>
           log = last.preLog.v
    /\ (Quiescent /\ last.op \in {"addLogItem", "removeLogItem"}
            /\ eff.muts.goal = 0) =>
           goal = last.preGoal

\* setGoal(2500) on a log of two entries was rendered and persisted: the goal
\* slot was written, the log and its slot are as they were
C28_Witness ==
    /\ Quiescent /\ eff.ran /\ ~eff.mount
    /\ last.op = "setGoal" /\ last.queued /\ last.a1 = Num(2500)
    /\ eff.muts.log = 0 /\ eff.tried = {"goal"}
    /\ goal = CellOf(Num(2500))
    /\ log = ArrayCell(<<EntryA, EntryB>>)
    /\ log = last.preLog.v
    /\ logSlot = JSONStringify(log)

\* C29: in the composed application no user event ever invokes
\* removeLogItem, so along every run the log only grows: each event leaves
\* the log unchanged or appends exactly one entry, and no entry once logged
\* ever disappears.
C29_LogOnlyGrows ==
    /\ last.op # "removeLogItem"
    /\ (last.op # "none" /\ OnList) =>
           /\ PendingLog.ok
           /\ PendingLog.v.t = "array"
           /\ \/ PendingLog.v.a = last.preLog.v.a
              \/ /\ last.op = "addLogItem" /\ last.queued
                 /\ Len(PendingLog.v.a) = Len(last.preLog.v.a) + 1
                 /\ SubSeq(PendingLog.v.a, 1, Len(last.preLog.v.a)) = last.preLog.v.a

\* on a persisted log of two entries the user set a goal of 5 and submitted
\* two entries, one after the other: the log holds the four entries in order
C29_Witness ==
    /\ Quiescent
    /\ ui.form = "CalorieInput" /\ ui.calls = 1
    /\ last.op = "addLogItem" /\ last.queued
    /\ goal = CellOf(Num(5))
    /\ Len(log.a) = 4
    /\ log.a[1] = EntryA /\ log.a[2] = EntryB
    /\ log.a[3].id = Nanoid(0) /\ log.a[4].id = Nanoid(1)

\* C30: in every reachable state, including states initialised from any
\* persisted log, the consumed total shown by ProgressDisplay equals the sum
\* of the calories of exactly those entries that LogList/LogItem render: no
\* entry is counted in the total but hidden from the list, or shown in the
\* list but left out of the total.
C30_TotalMatchesRenderedRows ==
    Mounted =>
        /\ totalConsumedCalories(ShownLog) = SumOfCalories(RenderedEntries(ShownLog))
        /\ ShownLog.t = "array" =>
               \A i \in 1..Len(ShownLog.a) :
                   LET item == ShownLog.a[i] IN
                   CountedCalories(item) # Num(0) =>
                       (LogListPasses(item) /\ LogItemRenders(item))

\* the application started on a persisted log [{name: 'a', calories: 100}]:
\* the total is 100 and the list renders no row
C30_Witness ==
    /\ CanInteract
    /\ log = ArrayCell(<<EntryNoId>>)
    /\ totalConsumedCalories(ShownLog) = Num(100)
    /\ RenderedEntries(ShownLog) = <<>>

=============================================================================
